---- MODULE Spec2Model ----
(***************************************************************************)
(* State-machine model of the Tauri backend commands of music-tutor        *)
(* (src/client/src-tauri/src/lib.rs): list_songs, load_analysis,           *)
(* get_stem_path and process_song, together with the filesystem and the    *)
(* external converter they act on.                                         *)
(*                                                                         *)
(* Strings are sequences of one-character strings; a few fixed texts       *)
(* ("analysis.json", the prefixes of the error messages, OS error          *)
(* descriptions, command-line words) are single tokens of such sequences.  *)
(***************************************************************************)
EXTENDS Integers, Sequences, FiniteSets, TLC

VARIABLES root, kind, manifest, files, scan, proc, last, deleted

vars == <<root, kind, manifest, files, scan, proc, last, deleted>>

fsVars == <<root, kind, manifest, files>>

(* ---------------------------- bounds ----------------------------------- *)

\* number of child entries the library directory can hold
NumChildren == 2

\* longest output_dir string process_song is called with in SpecProc
MaxPathLen == 6

\* number of process_song calls followed in one behaviour
MaxRuns == 1

(* ---------------------------- strings ---------------------------------- *)

\* Option<T>: the empty sequence is None, a one-element sequence is Some
None == <<>>

Some(x) == <<x>>

Children == 1 .. NumChildren

PathChars == {"/", "a", "s"}

RECURSIVE StringsUpTo(_, _)
StringsUpTo(chars, n) ==
    IF n = 0 THEN {<<>>}
    ELSE LET shorter == StringsUpTo(chars, n - 1)
         IN  shorter \cup {Append(s, ch) : s \in shorter, ch \in chars}

Last(s) == s[Len(s)]

Front(s) == SubSeq(s, 1, Len(s) - 1)

\* needle occurs in hay as a contiguous substring (str::contains)
Contains(hay, needle) ==
    \E i \in 0 .. (Len(hay) - Len(needle)) :
        SubSeq(hay, i + 1, i + Len(needle)) = needle

StartsWith(s, prefix) ==
    Len(prefix) <= Len(s) /\ SubSeq(s, 1, Len(prefix)) = prefix

EndsWith(s, suffix) ==
    Len(suffix) <= Len(s) /\ SubSeq(s, Len(s) - Len(suffix) + 1, Len(s)) = suffix

WhiteSpace == {" ", "\n"}

RECURSIVE TrimStart(_)
TrimStart(s) ==
    IF s # <<>> /\ Head(s) \in WhiteSpace THEN TrimStart(Tail(s)) ELSE s

RECURSIVE TrimEnd(_)
TrimEnd(s) ==
    IF s # <<>> /\ Last(s) \in WhiteSpace THEN TrimEnd(Front(s)) ELSE s

\* str::trim
Trim(s) == TrimEnd(TrimStart(s))

(* ----------------------------- paths ----------------------------------- *)

\* std::path::Path seen through its components: a root flag and the normal
\* components; repeated and trailing separators carry no component.
RECURSIVE SplitSegs(_, _, _)
SplitSegs(s, cur, acc) ==
    IF s = <<>> THEN (IF cur = <<>> THEN acc ELSE Append(acc, cur))
    ELSE IF Head(s) = "/"
         THEN SplitSegs(Tail(s), <<>>, IF cur = <<>> THEN acc ELSE Append(acc, cur))
         ELSE SplitSegs(Tail(s), Append(cur, Head(s)), acc)

PathNew(s) == [abs |-> (s # <<>> /\ Head(s) = "/"), segs |-> SplitSegs(s, <<>>, <<>>)]

\* Path::new(".")
CurDirPath == [abs |-> FALSE, segs |-> << <<".">> >>]

\* Path::parent: None when the path ends in a root or is empty
Parent(p) ==
    IF p.segs = <<>> THEN None
    ELSE Some([abs |-> p.abs, segs |-> Front(p.segs)])

\* Path::join on the string form: an absolute right side replaces the left
Join(base, rel) ==
    IF rel # <<>> /\ Head(rel) = "/" THEN rel
    ELSE IF base = <<>> \/ Last(base) = "/" THEN base \o rel
    ELSE base \o <<"/">> \o rel

ManifestName == <<"analysis.json">>

LibDir == <<"/", "a", "/", "a">>

ChildName(c) == [i \in 1 .. c |-> "s"]

SongDir(c) == Join(LibDir, ChildName(c))

StemFiles == {<<"v">>, <<"w">>}

(* ------------------------- manifest documents -------------------------- *)

\* A manifest document: whether its text is well-formed JSON, and the
\* top-level object as a record of JSON values [t |-> type, v |-> value].
JStr(v) == [t |-> "str", v |-> v]

JNum(v) == [t |-> "num", v |-> v]

JNull == [t |-> "null", v |-> 0]

JArr == [t |-> "arr", v |-> 0]

JMap(entries) == [t |-> "map", v |-> entries]

StemEntry(key, name, path) ==
    [key |-> key, name |-> name, paths |-> {path}, hasNotes |-> TRUE, peakDb |-> 0]

\* a JSON number with a fractional part (its integer part is kept as v)
JFrac(v) == [t |-> "frac", v |-> v]

\* a complete manifest; the stems object repeats the key "v"
DocFull ==
    [syntax |-> TRUE,
     obj |-> [title |-> JStr(<<"T">>), artist |-> JStr(<<"A">>),
              originalDuration |-> JNum(180), sampleRate |-> JNum(44100),
              stems |-> JMap(<<StemEntry(<<"v">>, <<"v">>, <<"v">>),
                               StemEntry(<<"w">>, <<"w">>, <<"w">>),
                               StemEntry(<<"v">>, <<"x">>, <<"v">>)>>),
              beats |-> JArr, sourceFile |-> JStr(<<"a">>),
              processingDate |-> JStr(<<"d">>), converterVersion |-> JStr(<<"1">>)]]

\* a complete manifest without title, with a null artist and no stems
DocBare ==
    [syntax |-> TRUE,
     obj |-> [artist |-> JNull,
              originalDuration |-> JNum(95), sampleRate |-> JNum(48000),
              stems |-> JMap(<<>>),
              beats |-> JArr, sourceFile |-> JStr(<<"s">>),
              processingDate |-> JStr(<<"d">>), converterVersion |-> JStr(<<"1">>)]]

\* sampleRate is not an integer, so it does not deserialize to an i32
DocFrac ==
    [syntax |-> TRUE,
     obj |-> [title |-> JStr(<<"T">>),
              originalDuration |-> JNum(60), sampleRate |-> JFrac(44100),
              stems |-> JMap(<<StemEntry(<<"v">>, <<"v">>, <<"v">>)>>),
              beats |-> JArr, sourceFile |-> JStr(<<"a">>),
              processingDate |-> JStr(<<"d">>), converterVersion |-> JStr(<<"1">>)]]

\* a manifest of another version: originalDuration is missing
DocOld ==
    [syntax |-> TRUE,
     obj |-> [title |-> JStr(<<"T">>), sampleRate |-> JNum(44100),
              stems |-> JMap(<<StemEntry(<<"v">>, <<"v">>, <<"v">>)>>),
              beats |-> JArr, sourceFile |-> JStr(<<"a">>),
              processingDate |-> JStr(<<"d">>), converterVersion |-> JStr(<<"1">>)]]

\* a truncated manifest: the text of DocFull cut before its end
DocCut == [syntax |-> FALSE, obj |-> DocFull.obj]

DocIds == {"full", "bare", "frac", "old", "cut"}

\* the text stored in a manifest file
Content(id) ==
    CASE id = "full" -> DocFull
      [] id = "bare" -> DocBare
      [] id = "frac" -> DocFrac
      [] id = "old" -> DocOld
      [] OTHER -> DocCut

Has(obj, f, types) == f \in DOMAIN obj /\ obj[f].t \in types

\* Option<T> field: absent and null both deserialize to None
OptOk(obj, f, type) == f \notin DOMAIN obj \/ obj[f].t \in {type, "null"}

OptField(obj, f) ==
    IF f \in DOMAIN obj /\ obj[f].t # "null" THEN Some(obj[f].v) ELSE None

StemsMap_keep_all(entries) ==
    [i \in DOMAIN entries |-> [name |-> entries[i].name,
                               paths |-> entries[i].paths,
                               has_notes |-> entries[i].hasNotes,
                               peak_db |-> entries[i].peakDb]]

\* HashMap from a JSON object: a repeated key keeps its last value
StemsMap(entries) ==
    LET keys == {entries[i].key : i \in DOMAIN entries}
        LastAt(k) == CHOOSE i \in DOMAIN entries :
                        /\ entries[i].key = k
                        /\ \A j \in DOMAIN entries : entries[j].key = k => j <= i
    IN  [k \in keys |-> [name |-> entries[LastAt(k)].name,
                         paths |-> entries[LastAt(k)].paths,
                         has_notes |-> entries[LastAt(k)].hasNotes,
                         peak_db |-> entries[LastAt(k)].peakDb]]

Ok(v) == [ok |-> TRUE, val |-> v, err |-> <<>>]

Err(e) == [ok |-> FALSE, val |-> <<>>, err |-> e]

\* serde_json::from_str::<SongAnalysis>
from_str(doc) ==
    LET obj == doc.obj IN
    IF ~doc.syntax THEN Err(<<"EOF while parsing">>)
    ELSE IF ~(/\ Has(obj, "originalDuration", {"num", "frac"})
              /\ Has(obj, "sampleRate", {"num"})
              /\ Has(obj, "stems", {"map"})
              /\ Has(obj, "beats", {"arr"})
              /\ Has(obj, "sourceFile", {"str"})
              /\ Has(obj, "processingDate", {"str"})
              /\ Has(obj, "converterVersion", {"str"})
              /\ OptOk(obj, "title", "str")
              /\ OptOk(obj, "artist", "str")
              /\ OptOk(obj, "album", "str"))
         THEN Err(<<"missing field or invalid type">>)
    ELSE Ok([title |-> OptField(obj, "title"),
             artist |-> OptField(obj, "artist"),
             album |-> OptField(obj, "album"),
             original_duration |-> obj.originalDuration.v,
             sample_rate |-> obj.sampleRate.v,
             stems |-> StemsMap(obj.stems.v)])

(* ---------------------------- filesystem ------------------------------- *)

\* root     : the library directory LibDir: "absent", "ok", or "denied"
\*            (it exists but cannot be opened for listing)
\* kind[c]  : entry c of the library: "absent", "file" or "dir"
\* manifest[c] : analysis.json of song directory c: "none", "unreadable"
\*            (it exists but read_to_string fails), or the id of its text
\* files[c] : the stem files present in song directory c
FS == [root |-> root, kind |-> kind, manifest |-> manifest, files |-> files]

LibPath == PathNew(LibDir)

IsPrefix(a, b) == Len(a) <= Len(b) /\ SubSeq(b, 1, Len(a)) = a

\* the library entry a path lies in or names (0 when there is none)
ChildOf(p) ==
    LET n == Len(LibPath.segs) IN
    IF p.abs /\ Len(p.segs) > n /\ IsPrefix(LibPath.segs, p.segs)
             /\ \E c \in Children : p.segs[n + 1] = ChildName(c)
    THEN CHOOSE c \in Children : p.segs[n + 1] = ChildName(c)
    ELSE 0

\* Path::exists: a live lookup of the path in the filesystem
exists(fs, s) ==
    LET p == PathNew(s)
        n == Len(LibPath.segs)
        c == ChildOf(p)
    IN  /\ p.abs
        /\ \/ (IsPrefix(p.segs, LibPath.segs) /\ Len(p.segs) < n)
           \/ (p.segs = LibPath.segs /\ fs.root # "absent")
           \/ /\ c # 0
              /\ fs.root # "absent"
              /\ fs.kind[c] # "absent"
              /\ \/ Len(p.segs) = n + 1
                 \/ /\ Len(p.segs) = n + 2
                    /\ fs.kind[c] = "dir"
                    /\ \/ (p.segs[n + 2] = ManifestName /\ fs.manifest[c] # "none")
                       \/ p.segs[n + 2] \in fs.files[c]

\* fs::read_to_string of a manifest path
read_to_string(fs, s) ==
    LET p == PathNew(s)
        c == ChildOf(p)
    IN  IF ~exists(fs, s) \/ c = 0 \/ Len(p.segs) # Len(LibPath.segs) + 2
            THEN Err(<<"No such file or directory">>)
        ELSE IF Last(p.segs) # ManifestName THEN Err(<<"stream did not contain valid UTF-8">>)
        ELSE IF fs.manifest[c] = "unreadable" THEN Err(<<"Permission denied">>)
        ELSE Ok(fs.manifest[c])

\* fs::read_dir: opening the directory for listing
read_dir(fs, dir) ==
    IF PathNew(dir) # LibPath \/ fs.root = "absent"
        THEN Err(<<"No such file or directory">>)
    ELSE IF fs.root = "denied" THEN Err(<<"Permission denied">>)
    ELSE Ok({c \in Children : fs.kind[c] # "absent"})

(* ---------------------------- list_songs ------------------------------- *)

\* the SongSummary built from a parsed manifest
summary_of(song_path, analysis) ==
    [path |-> song_path,
     title |-> analysis.title,
     artist |-> analysis.artist,
     duration |-> analysis.original_duration,
     stem_count |-> Cardinality(DOMAIN analysis.stems)]

list_songs_open_no_exists_test(fs, dir) ==
    IF ~read_dir(fs, dir).ok
         THEN [next |-> "return", result |-> Err(read_dir(fs, dir).err)]
    ELSE [next |-> "iterate", result |-> Ok(<<>>)]

\* the first lines of list_songs: "iterate" means the entries are iterated next
list_songs_open(fs, dir) ==
    IF ~exists(fs, dir) THEN [next |-> "return", result |-> Ok(<<>>)]
    ELSE IF ~read_dir(fs, dir).ok
         THEN [next |-> "return", result |-> Err(read_dir(fs, dir).err)]
    ELSE [next |-> "iterate", result |-> Ok(<<>>)]

BlankSummary(song_path) ==
    [path |-> song_path, title |-> None, artist |-> None,
     duration |-> 0, stem_count |-> 0]

list_songs_entry_unparsed(fs, dir, c, songs) ==
    LET song_path == Join(dir, ChildName(c))
        analysis_path == Join(song_path, ManifestName)
        content == read_to_string(fs, analysis_path)
        analysis == from_str(Content(content.val))
    IN  IF exists(fs, analysis_path) /\ content.ok
        THEN Append(songs, IF analysis.ok THEN summary_of(song_path, analysis.val)
                           ELSE BlankSummary(song_path))
        ELSE songs

list_songs_entry_unchecked(fs, dir, c, songs) ==
    LET song_path == Join(dir, ChildName(c))
        analysis_path == Join(song_path, ManifestName)
        content == read_to_string(fs, analysis_path)
        analysis == from_str(Content(content.val))
    IN  IF exists(fs, analysis_path) /\ content.ok /\ analysis.ok
        THEN Append(songs, summary_of(song_path, analysis.val))
        ELSE IF exists(fs, song_path) /\ ~exists(fs, analysis_path)
        THEN Append(songs, BlankSummary(song_path))
        ELSE songs

\* the body of the loop for an entry that was obtained: the songs afterwards
list_songs_entry(fs, dir, c, songs) ==
    LET song_path == Join(dir, ChildName(c))
        analysis_path == Join(song_path, ManifestName)
        content == read_to_string(fs, analysis_path)
        analysis == from_str(Content(content.val))
    IN  IF exists(fs, analysis_path) /\ content.ok /\ analysis.ok
        THEN Append(songs, summary_of(song_path, analysis.val))
        ELSE songs

\* the loop's answer to an entry the iterator failed to obtain
list_songs_entry_error(songs, e) == [next |-> "return", result |-> Err(e)]

\* the stem files a manifest records
Recorded(m) ==
    IF m \in DocIds /\ Has(Content(m).obj, "stems", {"map"})
    THEN UNION {Content(m).obj.stems.v[i].paths : i \in DOMAIN Content(m).obj.stems.v}
    ELSE {}

(* --------------------- load_analysis, get_stem_path -------------------- *)

load_analysis_lenient(fs, song_dir) ==
    LET analysis_path == Join(song_dir, ManifestName)
        content == read_to_string(fs, analysis_path)
    IN  IF ~content.ok THEN Err(content.err)
        ELSE IF from_str(Content(content.val)).ok THEN from_str(Content(content.val))
        ELSE Ok([title |-> None, artist |-> None, album |-> None,
                 original_duration |-> 0, sample_rate |-> 0, stems |-> <<>>])

load_analysis(fs, song_dir) ==
    LET analysis_path == Join(song_dir, ManifestName)
        content == read_to_string(fs, analysis_path)
    IN  IF ~content.ok THEN Err(content.err)
        ELSE from_str(Content(content.val))

NotFoundPrefix == <<"Stem file not found: ">>

get_stem_path_by_manifest(fs, song_dir, relative_path) ==
    LET stem_path == Join(song_dir, relative_path)
        content == read_to_string(fs, Join(song_dir, ManifestName))
    IN  IF content.ok /\ relative_path \in Recorded(content.val) THEN Ok(stem_path)
        ELSE Err(NotFoundPrefix \o stem_path)

get_stem_path(fs, song_dir, relative_path) ==
    LET stem_path == Join(song_dir, relative_path)
    IN  IF exists(fs, stem_path) THEN Ok(stem_path)
        ELSE Err(NotFoundPrefix \o stem_path)

(* ---------------------------- process_song ----------------------------- *)

\* Option::and_then with Path::parent, and Option::unwrap_or
AndThenParent(opt) == IF opt = None THEN None ELSE Parent(opt[1])

UnwrapOr(opt, default) == IF opt = None THEN default ELSE opt[1]

project_root_one_level(output_dir) ==
    UnwrapOr(Parent(PathNew(output_dir)), CurDirPath)

project_root(output_dir) ==
    UnwrapOr(AndThenParent(Parent(PathNew(output_dir))), CurDirPath)

process_song_args_always_drums(audio_file, output_dir, separate_drums) ==
    << <<"run">>, <<"music-tutor">>, <<"convert">>, audio_file,
       <<"-o">>, output_dir, <<"--drum-sep">> >>

\* the argument vector handed to Command::new("uv"); every argument is a string
process_song_args(audio_file, output_dir, separate_drums) ==
    LET args == << <<"run">>, <<"music-tutor">>, <<"convert">>, audio_file,
                   <<"-o">>, output_dir >>
    IN  IF separate_drums THEN Append(args, <<"--drum-sep">>) ELSE args

StartFailedPrefix == <<"Failed to start process: ">>

ProcessFailedPrefix == <<"Processing failed:", "\n">>

process_song_result_stderr_only(output_dir, out) ==
    IF ~out.started THEN Err(StartFailedPrefix \o out.oserr)
    ELSE IF out.success THEN Ok(output_dir)
    ELSE Err(ProcessFailedPrefix \o Trim(out.stderr))

\* the Result of process_song for an outcome of Command::output():
\* out.started, out.oserr, out.success, out.stdout, out.stderr
process_song_result(output_dir, out) ==
    IF ~out.started THEN Err(StartFailedPrefix \o out.oserr)
    ELSE IF out.success THEN Ok(output_dir)
    ELSE Err(ProcessFailedPrefix \o Trim(out.stdout) \o <<"\n">> \o Trim(out.stderr))

(* ------------------------------ inputs --------------------------------- *)

\* directories list_songs is called with: the library, the library with a
\* trailing separator, and a path that never exists
MissingDir == <<"/", "s">>

ScanDirs == {LibDir, Append(LibDir, "/"), MissingDir}

AudioFiles == {<<"x">>, <<"y">>}

OsErrors == {<<"No such file or directory">>, <<"Permission denied">>}

Stdouts == {<<>>, <<" ", "o", "\n">>, <<"o", " ", "o">>}

Stderrs == {<<>>, <<"\n", "e">>, <<" ">>}

(* ------------------------------ state ---------------------------------- *)

ScanIdle ==
    [pc |-> "idle", dir |-> <<>>, songs |-> <<>>, result |-> Ok(<<>>),
     saw |-> [c \in Children |-> "unseen"], late |-> {}, fault |-> "none"]

NoOutcome ==
    [started |-> FALSE, oserr |-> <<>>, success |-> FALSE,
     stdout |-> <<>>, stderr |-> <<>>]

ProcIdle ==
    [pc |-> "idle", audio |-> <<>>, out |-> <<>>, drums |-> FALSE,
     cwd |-> CurDirPath, args |-> <<>>, spawns |-> 0, step |-> "none",
     outcome |-> NoOutcome, result |-> Ok(<<>>), runs |-> 0]

NoCall ==
    [op |-> "none", dir |-> <<>>, rel |-> <<>>, held |-> "none",
     present |-> FALSE, gone |-> FALSE, res |-> Ok(<<>>)]

\* a library as earlier runs of the converter and the user left it
InitFS(manifests) ==
    /\ root \in {"absent", "ok", "denied"}
    /\ kind \in [Children -> {"absent", "file", "dir"}]
    /\ root # "ok" => \A c \in Children : kind[c] = "absent"
    /\ manifest \in [Children -> manifests]
    /\ \A c \in Children : kind[c] # "dir" => manifest[c] = "none"
    /\ files = [c \in Children |-> Recorded(manifest[c])]

InitRest ==
    /\ scan = ScanIdle
    /\ proc = ProcIdle
    /\ last = NoCall
    /\ deleted = {}

Init ==
    /\ InitFS({"none", "unreadable"} \cup DocIds)
    /\ InitRest

(* ----------------------- list_songs, step by step ---------------------- *)

\* entries created while a scan iterates: read_dir may or may not report them
Touch(sc, created) ==
    IF sc.pc = "iter" THEN [sc EXCEPT !.late = @ \cup created] ELSE sc

\* lines 57-65: the call, the existence test and the opening of the directory
ListSongsCall(dir) ==
    /\ scan.pc \in {"idle", "done"}
    /\ LET o == list_songs_open(FS, dir) IN
        scan' = [ScanIdle EXCEPT
                    !.pc = IF o.next = "iterate" THEN "iter" ELSE "done",
                    !.dir = dir,
                    !.result = o.result,
                    !.fault = IF o.result.ok THEN "none" ELSE "read_dir"]
    /\ UNCHANGED <<fsVars, proc, last, deleted>>

\* lines 66-84: the iterator yields entry c and the loop body runs on it
ListSongsEntry(c) ==
    /\ scan.pc = "iter"
    /\ kind[c] # "absent"
    /\ scan.saw[c] = "unseen"
    /\ scan' = [scan EXCEPT
                    !.songs = list_songs_entry(FS, scan.dir, c, @),
                    !.saw[c] = IF kind[c] = "dir" THEN manifest[c] ELSE "none"]
    /\ UNCHANGED <<fsVars, proc, last, deleted>>

\* line 67: the iterator yields an error instead of an entry
ListSongsEntryError(e) ==
    /\ scan.pc = "iter"
    /\ LET r == list_songs_entry_error(scan.songs, e) IN
        scan' = IF r.next = "return"
                THEN [scan EXCEPT !.pc = "done", !.result = r.result,
                                  !.fault = "entry", !.late = {}]
                ELSE [scan EXCEPT !.fault = "entry"]
    /\ UNCHANGED <<fsVars, proc, last, deleted>>

\* line 86: the iterator is exhausted; an entry created while the scan was
\* running may or may not have been reported
ListSongsReturn ==
    /\ scan.pc = "iter"
    /\ \A c \in Children :
            kind[c] # "absent" => (scan.saw[c] # "unseen" \/ c \in scan.late)
    /\ scan' = [scan EXCEPT !.pc = "done", !.result = Ok(scan.songs), !.late = {}]
    /\ UNCHANGED <<fsVars, proc, last, deleted>>

(* --------------- process_song and the external converter --------------- *)

\* the song directory of the library that output_dir names (0: none)
Target(output_dir) ==
    LET p == PathNew(output_dir) IN
    IF Len(p.segs) = Len(LibPath.segs) + 1 THEN ChildOf(p) ELSE 0

\* one run of process_song is followed at a time
CanCall == proc.pc \in {"idle", "returned"} /\ proc.runs < MaxRuns

\* lines 110-135: the call up to Command::output() starting the converter,
\* or failing to
ProcessSongCall(audio_file, output_dir, separate_drums) ==
    /\ CanCall
    /\ \E started \in BOOLEAN, e \in OsErrors :
        LET out == [NoOutcome EXCEPT !.started = started,
                                     !.oserr = IF started THEN <<>> ELSE e]
            call == [ProcIdle EXCEPT
                        !.audio = audio_file, !.out = output_dir,
                        !.drums = separate_drums,
                        !.cwd = project_root(output_dir),
                        !.args = process_song_args(audio_file, output_dir, separate_drums),
                        !.spawns = 1,
                        !.runs = proc.runs + 1,
                        !.outcome = out]
        IN  proc' = IF started
                    THEN [call EXCEPT !.pc = "running", !.step = "start"]
                    ELSE [call EXCEPT !.pc = "returned",
                                      !.result = process_song_result(output_dir, out)]
    /\ UNCHANGED <<fsVars, scan, last, deleted>>

\* the converter creates the output directory
ToolMkdir ==
    /\ proc.pc = "running" /\ proc.step = "start"
    /\ Target(proc.out) # 0
    /\ root # "denied"
    /\ kind[Target(proc.out)] # "file"
    /\ root' = "ok"
    /\ kind' = [kind EXCEPT ![Target(proc.out)] = "dir"]
    /\ proc' = [proc EXCEPT !.step = "dir"]
    /\ scan' = Touch(scan, IF kind[Target(proc.out)] = "absent"
                           THEN {Target(proc.out)} ELSE {})
    /\ UNCHANGED <<manifest, files, last, deleted>>

\* the converter writes the stem files
ToolWriteStems ==
    /\ proc.pc = "running" /\ proc.step = "dir"
    /\ files' = [files EXCEPT ![Target(proc.out)] = StemFiles]
    /\ proc' = [proc EXCEPT !.step = "stems"]
    /\ UNCHANGED <<root, kind, manifest, scan, last, deleted>>

\* the converter starts to write the manifest, after the stem files
ToolBeginManifest ==
    /\ proc.pc = "running" /\ proc.step = "stems"
    /\ manifest' = [manifest EXCEPT ![Target(proc.out)] = "cut"]
    /\ proc' = [proc EXCEPT !.step = "partial"]
    /\ UNCHANGED <<root, kind, files, scan, last, deleted>>

\* the converter completes the manifest
ToolEndManifest ==
    /\ proc.pc = "running" /\ proc.step = "partial"
    /\ manifest' = [manifest EXCEPT ![Target(proc.out)] = "full"]
    /\ proc' = [proc EXCEPT !.step = "manifest"]
    /\ UNCHANGED <<root, kind, files, scan, last, deleted>>

\* lines 137-147: the converter exits and process_song returns
ToolExit(success, stdout, stderr) ==
    /\ proc.pc = "running"
    /\ LET out == [proc.outcome EXCEPT !.success = success,
                                       !.stdout = stdout, !.stderr = stderr]
       IN  proc' = [proc EXCEPT !.pc = "returned", !.step = "none",
                                !.outcome = out,
                                !.result = process_song_result(proc.out, out)]
    /\ UNCHANGED <<fsVars, scan, last, deleted>>

(* ------------- load_analysis and get_stem_path as calls ---------------- *)

SongDirs == {SongDir(c) : c \in Children} \cup {MissingDir}

\* an absolute relative_path: the stem "v" of the first song directory
AbsStem == Join(SongDir(1), <<"v">>)

StemArgs == StemFiles \cup {AbsStem}

\* the manifest a song directory holds: "none" when there is no such file
Held(dir) ==
    LET c == Target(dir) IN
    IF c # 0 /\ root # "absent" /\ kind[c] = "dir" THEN manifest[c] ELSE "none"

\* the song directory and file name a get_stem_path call is about
StemOf(dir, rel) ==
    IF rel = AbsStem THEN [c |-> 1, f |-> <<"v">>] ELSE [c |-> Target(dir), f |-> rel]

\* lines 91-95
LoadAnalysis(dir) ==
    /\ last' = [NoCall EXCEPT !.op = "load_analysis", !.dir = dir,
                              !.held = Held(dir),
                              !.res = load_analysis(FS, dir)]
    /\ deleted' = {}
    /\ UNCHANGED <<fsVars, scan, proc>>

\* lines 99-106
GetStemPath(dir, rel) ==
    /\ last' = [NoCall EXCEPT
                    !.op = "get_stem_path", !.dir = dir, !.rel = rel,
                    !.present = LET t == StemOf(dir, rel) IN
                                /\ t.c # 0 /\ root # "absent" /\ kind[t.c] = "dir"
                                /\ t.f \in files[t.c],
                    !.gone = (StemOf(dir, rel) \in deleted),
                    !.res = get_stem_path(FS, dir, rel)]
    /\ UNCHANGED <<fsVars, scan, proc, deleted>>

\* a stem file is deleted from outside; "deleted" keeps the files the
\* manifest records that went after the latest call parsed that manifest
DeleteStem(c, f) ==
    /\ kind[c] = "dir"
    /\ f \in files[c]
    /\ files' = [files EXCEPT ![c] = @ \ {f}]
    /\ deleted' = IF /\ last.op = "load_analysis" /\ last.res.ok
                     /\ last.dir = SongDir(c)
                     /\ \E k \in DOMAIN last.res.val.stems :
                            f \in last.res.val.stems[k].paths
                  THEN deleted \cup {[c |-> c, f |-> f]}
                  ELSE deleted
    /\ UNCHANGED <<root, kind, manifest, scan, proc, last>>

(* --------------------------- specifications ---------------------------- *)

\* list_songs on a library that does not change
Next ==
    \/ \E dir \in ScanDirs : ListSongsCall(dir)
    \/ \E c \in Children : ListSongsEntry(c)
    \/ ListSongsEntryError(<<"Input/output error">>)
    \/ ListSongsReturn

Spec == Init /\ [][Next]_vars

\* list_songs while process_song runs the converter on a song directory
InitRun ==
    /\ InitFS({"none", "full", "old"})
    /\ root # "denied"
    /\ \A c \in Children : kind[c] # "file"
    /\ InitRest

NextRun ==
    \/ ListSongsCall(LibDir)
    \/ \E c \in Children : ListSongsEntry(c)
    \/ ListSongsEntryError(<<"Input/output error">>)
    \/ ListSongsReturn
    \/ \E c \in Children : ProcessSongCall(<<"x">>, SongDir(c), FALSE)
    \/ ToolMkdir
    \/ ToolWriteStems
    \/ ToolBeginManifest
    \/ ToolEndManifest
    \/ \E ok \in BOOLEAN : ToolExit(ok, <<"o">>, <<"e">>)

SpecRun == InitRun /\ [][NextRun]_vars

\* load_analysis and get_stem_path on song directories whose stem files
\* are deleted from outside
InitSong ==
    /\ InitFS({"none", "unreadable", "full", "bare", "cut"})
    /\ root = "ok"
    /\ \A c \in Children : kind[c] = "dir"
    /\ InitRest

NextSong ==
    \/ \E dir \in SongDirs : LoadAnalysis(dir)
    \/ \E dir \in SongDirs, rel \in StemArgs : GetStemPath(dir, rel)
    \/ \E c \in Children, f \in StemFiles : DeleteStem(c, f)

SpecSong == InitSong /\ [][NextSong]_vars

\* process_song on every output_dir of up to MaxPathLen characters
OutputDirs == StringsUpTo(PathChars, MaxPathLen)

\* the arguments of the call are drawn here and held in proc until the call
InitProc ==
    /\ root = "ok"
    /\ kind = [c \in Children |-> "absent"]
    /\ manifest = [c \in Children |-> "none"]
    /\ files = [c \in Children |-> {}]
    /\ scan = ScanIdle
    /\ \E a \in AudioFiles, o \in OutputDirs, d \in BOOLEAN :
            proc = [ProcIdle EXCEPT !.audio = a, !.out = o, !.drums = d]
    /\ last = NoCall
    /\ deleted = {}

NextProc ==
    \/ ProcessSongCall(proc.audio, proc.out, proc.drums)
    \/ ToolMkdir
    \/ ToolWriteStems
    \/ ToolBeginManifest
    \/ ToolEndManifest
    \/ \E ok \in BOOLEAN, so \in Stdouts, se \in Stderrs : ToolExit(ok, so, se)

SpecProc == InitProc /\ [][NextProc]_vars

(* ------------------------------ properties ----------------------------- *)

\* the entries of the library whose manifest can be read and parses
Good ==
    {c \in Children : /\ root = "ok" /\ kind[c] = "dir"
                      /\ manifest[c] \in DocIds
                      /\ Content(manifest[c]).syntax
                      /\ from_str(Content(manifest[c])).ok}

\* the entries whose manifest is missing, unreadable or does not parse
Bad == {c \in Children : kind[c] # "absent"} \ Good

SummaryPaths(songs) == {songs[i].path : i \in DOMAIN songs}

\* C1: when the library directory exists and is listed without an I/O
\* failure, list_songs returns Ok with exactly one summary per entry whose
\* manifest is readable and parses; entries without a manifest or with an
\* unreadable or unparseable one add nothing and cause no error.
C1_OneSummaryPerGoodEntry ==
    (scan.pc = "done" /\ root = "ok" /\ scan.dir # MissingDir /\ scan.fault = "none")
        => /\ scan.result.ok
           /\ Len(scan.result.val) = Cardinality(Good)
           /\ SummaryPaths(scan.result.val) = {Join(scan.dir, ChildName(c)) : c \in Good}

C1_Witness ==
    /\ scan.pc = "done" /\ root = "ok" /\ scan.dir = LibDir /\ scan.fault = "none"
    /\ scan.result.ok /\ Len(scan.result.val) = 1
    /\ \E b \in Bad : manifest[b] \in {"cut", "old", "frac"}

\* C2: list_songs on a path that does not exist returns Ok with an empty list.
C2_MissingDirIsEmptyOk ==
    (scan.pc = "done" /\ (scan.dir = MissingDir \/ root = "absent"))
        => scan.result = Ok(<<>>)

C2_Witness ==
    /\ scan.pc = "done" /\ scan.dir = LibDir /\ root = "absent"
    /\ scan.result.ok /\ scan.result.val = <<>>

\* C3: list_songs returns an error only when opening the existing library
\* directory for listing fails; a failure about one entry (the iterator
\* failing to yield it, its manifest unreadable or unparseable) never does.
C3_ErrorOnlyFromOpeningRoot ==
    (scan.pc = "done" /\ ~scan.result.ok)
        => (root = "denied" /\ scan.fault = "read_dir")

\* an optional text field as the manifest document holds it
JsonOpt(obj, f) ==
    IF f \in DOMAIN obj /\ obj[f].t = "str" THEN Some(obj[f].v) ELSE None

\* C9: every summary list_songs has collected is the projection of the
\* manifest in the entry its path names: stem_count is the number of distinct
\* keys of the manifest's stems object, duration its originalDuration, title
\* and artist its title and artist (None when absent or null).
C9_SummaryIsProjection ==
    \A i \in DOMAIN scan.songs :
        \E c \in Children :
            /\ scan.songs[i].path = Join(scan.dir, ChildName(c))
            /\ kind[c] = "dir" /\ manifest[c] \in DocIds
            /\ LET obj == Content(manifest[c]).obj
                   sum == scan.songs[i]
               IN  /\ sum.stem_count =
                        Cardinality({obj.stems.v[k].key : k \in DOMAIN obj.stems.v})
                   /\ sum.duration = obj.originalDuration.v
                   /\ sum.title = JsonOpt(obj, "title")
                   /\ sum.artist = JsonOpt(obj, "artist")

C9_Witness ==
    /\ scan.pc = "done" /\ scan.result.ok
    /\ \E i \in DOMAIN scan.result.val :
            /\ scan.result.val[i].stem_count = 2
            /\ scan.result.val[i].duration = 180
            /\ scan.result.val[i].title = Some(<<"T">>)
    /\ \E i \in DOMAIN scan.result.val :
            /\ scan.result.val[i].stem_count = 0
            /\ scan.result.val[i].title = None
            /\ scan.result.val[i].artist = None

\* C4: load_analysis returns an error whenever the manifest of song_dir is
\* missing, unreadable or does not parse, and the parsed SongAnalysis otherwise.
C4_LoadFailsLoudly ==
    last.op = "load_analysis"
        => IF last.held \in DocIds /\ from_str(Content(last.held)).ok
           THEN last.res = Ok(from_str(Content(last.held)).val)
           ELSE ~last.res.ok

C4_Witness ==
    /\ last.op = "load_analysis"
    /\ last.held = "cut"
    /\ ~last.res.ok

\* C5: get_stem_path returns Ok with the joined path exactly when the file
\* at song_dir joined with relative_path exists at the call, and otherwise a
\* not-found error naming that path; a file the manifest records that was
\* deleted after the manifest was parsed makes the call fail.
C5_StemPathIsLiveCheck ==
    last.op = "get_stem_path"
        => /\ last.res.ok <=> last.present
           /\ last.res.ok => last.res.val = Join(last.dir, last.rel)
           /\ ~last.res.ok => last.res.err = NotFoundPrefix \o Join(last.dir, last.rel)
           /\ last.gone => ~last.res.ok

C5_Witness ==
    /\ last.op = "get_stem_path"
    /\ last.gone
    /\ ~last.res.ok
    /\ last.rel \in Recorded(Held(last.dir))

\* str::trim stated on positions: the text between the first and the last
\* character that is not white space
Stripped(s) ==
    LET inked == {i \in DOMAIN s : s[i] \notin WhiteSpace}
    IN  IF inked = {} THEN <<>>
        ELSE SubSeq(s, CHOOSE i \in inked : \A j \in inked : i <= j,
                       CHOOSE i \in inked : \A j \in inked : j <= i)

\* C6: process_song returns Ok exactly when the converter was started and
\* exited with success, and then returns output_dir unchanged; a failing exit
\* gives an error containing the trimmed stdout and the trimmed stderr; a
\* converter that cannot be started gives the distinct "Failed to start
\* process" error ending in the OS error description.
C6_ResultFollowsExit ==
    proc.pc = "returned"
        => /\ proc.result.ok <=> (proc.outcome.started /\ proc.outcome.success)
           /\ proc.result.ok => proc.result.val = proc.out
           /\ (proc.outcome.started /\ ~proc.outcome.success)
                => /\ StartsWith(proc.result.err, ProcessFailedPrefix)
                   /\ Contains(proc.result.err, Stripped(proc.outcome.stdout))
                   /\ Contains(proc.result.err, Stripped(proc.outcome.stderr))
           /\ ~proc.outcome.started
                => /\ StartsWith(proc.result.err, StartFailedPrefix)
                   /\ EndsWith(proc.result.err, proc.outcome.oserr)
                   /\ ~StartsWith(proc.result.err, ProcessFailedPrefix)

C6_Witness ==
    /\ proc.pc = "returned"
    /\ proc.outcome.started /\ ~proc.outcome.success
    /\ proc.outcome.stdout = <<"o", " ", "o">>
    /\ proc.outcome.stderr = <<"\n", "e">>
    /\ ~proc.result.ok

\* C7: the working directory given to the converter is output_dir without
\* its last two components when it has two, and "." otherwise: "/a/a/s"
\* gives "/a" and "s" gives ".".
C7_WorkingDirIsGrandparent ==
    proc.spawns > 0
        => LET p == PathNew(proc.out) IN
           /\ proc.cwd = IF Len(p.segs) >= 2
                         THEN [abs |-> p.abs, segs |-> SubSeq(p.segs, 1, Len(p.segs) - 2)]
                         ELSE CurDirPath
           /\ proc.out = <<"/", "a", "/", "a", "/", "s">> => proc.cwd = PathNew(<<"/", "a">>)
           /\ proc.out = <<"s">> => proc.cwd = CurDirPath

C7_Witness ==
    /\ proc.spawns > 0
    /\ proc.out = <<"/", "a", "/", "a", "/", "s">>
    /\ proc.cwd = [abs |-> TRUE, segs |-> << <<"a">> >>]

\* C8: a process_song call starts the converter once, with the arguments
\* run, music-tutor, convert, audio_file, -o, output_dir, and then --drum-sep
\* exactly when separate_drums is true.
C8_SingleStartWithArgs ==
    proc.pc # "idle"
        => /\ proc.spawns = 1
           /\ proc.args = << <<"run">>, <<"music-tutor">>, <<"convert">>,
                              proc.audio, <<"-o">>, proc.out >>
                           \o (IF proc.drums THEN << <<"--drum-sep">> >> ELSE <<>>)

C8_Witness ==
    /\ proc.pc = "returned"
    /\ proc.drums
    /\ proc.audio = <<"y">>
    /\ Len(proc.args) = 7
    /\ proc.args[7] = <<"--drum-sep">>

\* C10: while process_song runs the converter on a song directory, a scan
\* lists that directory only if its manifest existed when the scan examined
\* it, every summary is built from the manifest as it was then, and a scan
\* without an I/O failure of the listing returns Ok.
C10_ScanToleratesPartialOutput ==
    /\ (scan.pc = "done" /\ scan.fault = "none") => scan.result.ok
    /\ \A i \in DOMAIN scan.songs :
          \E c \in Children :
             /\ scan.songs[i].path = SongDir(c)
             /\ scan.saw[c] \in DocIds
             /\ from_str(Content(scan.saw[c])).ok
             /\ scan.songs[i] = summary_of(SongDir(c), from_str(Content(scan.saw[c])).val)

C10_Witness ==
    /\ scan.pc = "done" /\ scan.result.ok
    /\ proc.pc = "running" /\ proc.step = "partial"
    /\ scan.saw[Target(proc.out)] = "cut"
    /\ SongDir(Target(proc.out)) \notin SummaryPaths(scan.result.val)
    /\ scan.result.val # <<>>

====
